---- MODULE Spec2Model ----
(***************************************************************************)
(* Poem Synonymizer: the processor of src/processer.py (tokenizer, POS     *)
(* classifier with remote path and circuit breaker, thesaurus cache and    *)
(* fetcher, synonym selection and sentence builder).                       *)
(*                                                                         *)
(* A Python str is a sequence of one-character strings; None is the model  *)
(* value None.  Every remote call, file operation and random choice is a   *)
(* nondeterministic choice over its possible outcomes: an operation of the *)
(* processor is modelled by the set of results it can produce.             *)
(***************************************************************************)
EXTENDS Naturals, Sequences, FiniteSets, TLC

VARIABLES
    data,              \* processor.data
    words,             \* processor.words
    words_type,        \* processor.words_type
    synonym_sentence,  \* processor.synonym_sentence
    thesaurus_key,     \* processor.thesaurus_key
    thesaurus_link,    \* processor.thesaurus_link
    gemini_key,        \* processor.gemini_key
    _gemini_failures,  \* processor._gemini_failures (absent attribute reads as 0)
    cache,             \* files of THESAURUS_CACHE_DIR: safe name -> document or Corrupt
    cache_dir_ok,      \* whether os.makedirs(cache_dir, exist_ok=True) succeeds
    ret,               \* value returned by (or exception escaping) the last process call
    last,              \* what the last operation did: requests issued, words chosen (history)
    failed_run,        \* remote tagging attempts that failed since the last one that
                       \* succeeded, counted to 3 (history)
    in_q,              \* run.py in_q: payloads from the GUI to the worker
    in_capacity,       \* maxsize of in_q (0: unbounded, as queue.Queue() in main)
    out_q,             \* run.py out_q: results from the worker to the GUI
    stop_event,        \* run.py stop_event
    wpc,               \* where the worker is in its loop
    witem,             \* the item the worker holds
    wlast,             \* what the worker has done (history)
    last_sent_text,    \* create_gui last_sent_text
    output_box,        \* contents of the output box
    btn_enabled,       \* generate_btn._enabled
    enable_timers,     \* pending root.after(150, generate_btn.enable) callbacks
    retries,           \* pending root.after(delay_ms, _send_with_retry(payload, attempt + 1))
    glast,             \* the last generate action (history)
    budget             \* generate actions the user will still be followed through

\* the processor, its cache directory and the history of its calls
pvars == <<data, words, words_type, synonym_sentence, thesaurus_key, thesaurus_link,
           gemini_key, _gemini_failures, cache, cache_dir_ok, ret, last, failed_run>>

\* the queues, the worker and the GUI
gvars == <<in_q, in_capacity, out_q, stop_event, wpc, witem, wlast, last_sent_text,
           output_box, btn_enabled, enable_timers, retries, glast, budget>>

vars == <<pvars, gvars>>

None == "None"

-----------------------------------------------------------------------------
(* Characters and the str methods the processor uses.                      *)

LowerSeq ==
    <<"a","b","c","d","e","f","g","h","i","j","k","l","m","n","o","p","q","r","s","t","u","v","w","x","y","z">>

UpperSeq ==
    <<"A","B","C","D","E","F","G","H","I","J","K","L","M","N","O","P","Q","R","S","T","U","V","W","X","Y","Z">>

DigitSeq ==
    <<"0","1","2","3","4","5","6","7","8","9">>

Range(s) == { s[i] : i \in DOMAIN s }

Lower == Range(LowerSeq)

Upper == Range(UpperSeq)

Digits == Range(DigitSeq)

IndexIn(s, c) == CHOOSE i \in DOMAIN s : s[i] = c

\* str.isupper() of one character
IsUpper(c) == c \in Upper

\* str.lower() / str.upper() of one character
LowerChar(c) == IF c \in Upper THEN LowerSeq[IndexIn(UpperSeq, c)] ELSE c

UpperChar(c) == IF c \in Lower THEN UpperSeq[IndexIn(LowerSeq, c)] ELSE c

\* str.lower()
lower(s) == [i \in DOMAIN s |-> LowerChar(s[i])]

\* str.capitalize(): first character upper-cased, every other character lower-cased
capitalize(s) == [i \in DOMAIN s |-> IF i = 1 THEN UpperChar(s[i]) ELSE LowerChar(s[i])]

\* regex \w (ASCII) and whitespace as str.strip() sees it
IsWordChar(c) == c \in Lower \cup Upper \cup Digits \cup {"_"}

IsSpace(c) == c \in {" ", "\n", "\t", "\r"}

\* str.endswith
endswith(s, suf) ==
    /\ Len(s) >= Len(suf)
    /\ SubSeq(s, Len(s) - Len(suf) + 1, Len(s)) = suf

\* str.strip() and str.rstrip()
RECURSIVE rstrip(_)
rstrip(s) == IF s # <<>> /\ IsSpace(s[Len(s)]) THEN rstrip(SubSeq(s, 1, Len(s) - 1)) ELSE s

RECURSIVE lstrip(_)
lstrip(s) == IF s # <<>> /\ IsSpace(s[1]) THEN lstrip(Tail(s)) ELSE s

strip(s) == lstrip(rstrip(s))

\* "".join(parts)
RECURSIVE join(_)
join(parts) == IF parts = <<>> THEN <<>> ELSE Head(parts) \o join(Tail(parts))

NEWLINE_MARKER == <<"_","n","e","w","L","i","n","e">>

-----------------------------------------------------------------------------
(* Tokenization: re.findall(r"\n|\b\w+(?:'\w+)?\b", text)                    *)

\* last index of the maximal run of word characters that starts at i
RECURSIVE RunEnd(_, _)
RunEnd(text, i) ==
    IF i < Len(text) /\ IsWordChar(text[i + 1]) THEN RunEnd(text, i + 1) ELSE i

\* end of the match that starts at i: \w+ and then, if present, '\w+
MatchEnd(text, i) ==
    LET j == RunEnd(text, i)
    IN  IF j + 2 <= Len(text) /\ text[j + 1] = "'" /\ IsWordChar(text[j + 2])
        THEN RunEnd(text, j + 2)
        ELSE j

RECURSIVE findall(_, _)
findall(text, i) ==
    IF i > Len(text) THEN <<>>
    ELSE IF text[i] = "\n" THEN << <<"\n">> >> \o findall(text, i + 1)
    ELSE IF IsWordChar(text[i])
         THEN <<SubSeq(text, i, MatchEnd(text, i))>> \o findall(text, MatchEnd(text, i) + 1)
    ELSE findall(text, i + 1)

\* self.words = [t if t != "\n" else NEWLINE_MARKER for t in tokens]
Tokenize(text) ==
    LET tokens == findall(text, 1)
    IN  [i \in DOMAIN tokens |-> IF tokens[i] # <<"\n">> THEN tokens[i] ELSE NEWLINE_MARKER]

-----------------------------------------------------------------------------
(* Local heuristic classifier: find_type._guess_type                       *)

pronouns ==
    { <<"i">>, <<"y","o","u">>, <<"h","e">>, <<"s","h","e">>, <<"i","t">>, <<"w","e">>,
      <<"t","h","e","y">>, <<"m","e">>, <<"h","i","m">>, <<"h","e","r">>, <<"u","s">>,
      <<"t","h","e","m">>, <<"m","y">>, <<"y","o","u","r">>, <<"h","i","s">>,
      <<"o","u","r">>, <<"t","h","e","i","r">>, <<"m","i","n","e">>,
      <<"y","o","u","r","s">> }

determiners ==
    { <<"t","h","e">>, <<"a">>, <<"a","n">>, <<"t","h","i","s">>, <<"t","h","a","t">>,
      <<"t","h","e","s","e">>, <<"t","h","o","s","e">>, <<"s","o","m","e">>,
      <<"a","n","y">>, <<"e","a","c","h">>, <<"e","v","e","r","y">>, <<"n","o">>,
      <<"i","t","s">> }

prepositions ==
    { <<"i","n">>, <<"o","n">>, <<"a","t">>, <<"f","o","r">>, <<"t","o">>,
      <<"f","r","o","m">>, <<"b","y">>, <<"w","i","t","h">>, <<"a","b","o","u","t">>,
      <<"o","f">>, <<"i","n","t","o">>, <<"o","v","e","r">>, <<"u","n","d","e","r">>,
      <<"b","e","t","w","e","e","n">>, <<"a","m","o","n","g">> }

conjunctions ==
    { <<"a","n","d">>, <<"b","u","t">>, <<"o","r">>, <<"n","o","r">>, <<"s","o">>,
      <<"y","e","t">>, <<"f","o","r">> }

\* re.match(r'^\W+$', w): $ also matches before a final newline, which \W+ covers anyway
AllNonWord(w) == w # <<>> /\ \A i \in DOMAIN w : ~IsWordChar(w[i])

AllDigits(s) == s # <<>> /\ \A i \in DOMAIN s : s[i] \in Digits

\* re.match(r'^[0-9]+(\.[0-9]+)?$', lw): $ matches at the end or before a final newline
IsNumeral(lw) ==
    LET s == IF lw # <<>> /\ lw[Len(lw)] = "\n" THEN SubSeq(lw, 1, Len(lw) - 1) ELSE lw
    IN  \/ AllDigits(s)
        \/ \E k \in DOMAIN s :
              /\ s[k] = "."
              /\ AllDigits(SubSeq(s, 1, k - 1))
              /\ AllDigits(SubSeq(s, k + 1, Len(s)))

_guess_type(w) ==
    LET lw == lower(w)
    IN  IF w = NEWLINE_MARKER THEN "newline"
        ELSE IF AllNonWord(w) THEN "punctuation"
        ELSE IF IsNumeral(lw) THEN "numeral"
        ELSE IF lw \in pronouns THEN "pronoun"
        ELSE IF lw \in determiners THEN "determiner"
        ELSE IF lw \in prepositions THEN "preposition"
        ELSE IF lw \in conjunctions THEN "conjunction"
        ELSE IF endswith(lw, <<"l","y">>) THEN "adverb"
        ELSE IF \/ endswith(lw, <<"i","n","g">>)
                \/ endswith(lw, <<"e","d">>)
                \/ endswith(lw, <<"s">>) THEN "verb"
        ELSE "noun"

\* [(w, _guess_type(w)) for w in self.words]
LocalTypes(ws) == [i \in DOMAIN ws |-> <<ws[i], _guess_type(ws[i])>>]

-----------------------------------------------------------------------------
(* Thesaurus documents (parsed JSON).  A document is a list of items or a  *)
(* single object; the builder looks only at the shapes modelled here.      *)
(*   document : [kind |-> "list", items |-> <<item, ...>>]  or an item     *)
(*   item     : [kind |-> "dict", fl |-> label, meta |-> meta]             *)
(*              or [kind |-> "str", s |-> chars]   (not an object)         *)
(*   meta     : [kind |-> "dict", syns |-> <<group, ...>>]                 *)
(*              or [kind |-> "null"]               (no .get method)        *)
(*   group    : [kind |-> "list", syns |-> <<syn, ...>>]                   *)
(*              or [kind |-> "str", s |-> chars]   (not a list)            *)
(*   syn      : [kind |-> "str", s |-> chars] or [kind |-> "num"]          *)

NoEntry == [kind |-> "none"]

Corrupt == [kind |-> "corrupt"]

Str(chars) == [kind |-> "str", s |-> chars]

Group(syns) == [kind |-> "list", syns |-> [i \in DOMAIN syns |-> Str(syns[i])]]

Record(fl, groups) == [kind |-> "dict", fl |-> fl, meta |-> [kind |-> "dict", syns |-> groups]]

ListDoc(items) == [kind |-> "list", items |-> items]

\* Python truthiness of a parsed document: None and empty containers are falsy
Truthy(entry) ==
    /\ entry.kind # "none"
    /\ entry.kind = "list" => entry.items # <<>>

-----------------------------------------------------------------------------
(* Thesaurus cache and fetcher.  An operation returns the set of results   *)
(* it can produce; a result carries the returned value, whether an         *)
(* exception left the function, the cache afterwards and the remote GETs   *)
(* it issued (each GET is logged with the word and the credential used).   *)

THESAURUS_NAME_LIMIT == 200

\* processor._safe_filename: re.sub(r'[^A-Za-z0-9._-]', '_', word.strip().lower())[:200]
_safe_filename(word) ==
    LET w == lower(strip(word))
        m == [i \in DOMAIN w |->
                IF IsWordChar(w[i]) \/ w[i] \in {".", "-"} THEN w[i] ELSE "_"]
    IN  SubSeq(m, 1, IF Len(m) < THESAURUS_NAME_LIMIT THEN Len(m) ELSE THESAURUS_NAME_LIMIT)

\* Outcomes of requests.get + raise_for_status + resp.json + the cache write
FetchFailures == {"transport", "status", "badjson"}

FetchResult(val, raised, c, gets) == [val |-> val, raised |-> raised, cache |-> c, gets |-> gets]

\* not word or not word.strip()
Blank(word) == strip(word) = <<>>

\* (mutant) a fetched document is returned but never written to the cache
call_thesaurus_NoWrite(word, c, env) ==
    IF env.link = None \/ env.key = None THEN {FetchResult(NoEntry, FALSE, c, <<>>)}
    ELSE IF Blank(word) THEN {FetchResult(NoEntry, FALSE, c, <<>>)}
    ELSE LET get == <<[word |-> word, key |-> env.key]>>
         IN  { FetchResult(NoEntry, FALSE, c, get) : f \in FetchFailures }
             \cup { FetchResult(d, FALSE, c, get) : d \in env.docs }

\* (mutant) a failed fetch leaves an unreadable file behind
call_thesaurus_WritesOnFailure(word, c, env) ==
    IF env.link = None \/ env.key = None THEN {FetchResult(NoEntry, FALSE, c, <<>>)}
    ELSE IF Blank(word) THEN {FetchResult(NoEntry, FALSE, c, <<>>)}
    ELSE LET get == <<[word |-> word, key |-> env.key]>>
         IN  { FetchResult(NoEntry, FALSE, (_safe_filename(word) :> Corrupt) @@ c, get) :
                 f \in FetchFailures }
             \cup
             { IF env.dir_ok
               THEN FetchResult(d, FALSE, (_safe_filename(word) :> d) @@ c, get)
               ELSE FetchResult(NoEntry, FALSE, c, get) : d \in env.docs }

\* processor.call_thesaurus; env = [link, key, dir_ok, docs]
call_thesaurus(word, c, env) ==
    IF env.link = None \/ env.key = None THEN {FetchResult(NoEntry, FALSE, c, <<>>)}
    ELSE IF Blank(word) THEN {FetchResult(NoEntry, FALSE, c, <<>>)}
    ELSE LET get == <<[word |-> word, key |-> env.key]>>
         IN  \* the GET fails, or the body is no JSON: caught, nothing written
             { FetchResult(NoEntry, FALSE, c, get) : f \in FetchFailures }
             \cup
             \* the GET succeeds; the cache file is written, or writing it raises
             { IF env.dir_ok
               THEN FetchResult(d, FALSE, (_safe_filename(word) :> d) @@ c, get)
               ELSE FetchResult(NoEntry, FALSE, c, get) : d \in env.docs }
             \cup
             { FetchResult(NoEntry, FALSE, c, get) : d \in env.docs }

\* (mutant) an unreadable cache file is deleted before the remote fetch
get_or_fetch_thesaurus_DeletesCorrupt(word, c, env) ==
    IF Blank(word) THEN {FetchResult(NoEntry, FALSE, c, <<>>)}
    ELSE IF ~env.dir_ok THEN {FetchResult(NoEntry, TRUE, c, <<>>)}
    ELSE IF _safe_filename(word) \in DOMAIN c /\ c[_safe_filename(word)] # Corrupt
         THEN {FetchResult(c[_safe_filename(word)], FALSE, c, <<>>)}
    ELSE call_thesaurus(word, [k \in DOMAIN c \ {_safe_filename(word)} |-> c[k]], env)

\* processor.get_or_fetch_thesaurus
get_or_fetch_thesaurus(word, c, env) ==
    IF Blank(word) THEN {FetchResult(NoEntry, FALSE, c, <<>>)}
    ELSE IF ~env.dir_ok THEN {FetchResult(NoEntry, TRUE, c, <<>>)}
    ELSE IF _safe_filename(word) \in DOMAIN c /\ c[_safe_filename(word)] # Corrupt
         THEN {FetchResult(c[_safe_filename(word)], FALSE, c, <<>>)}
    ELSE call_thesaurus(word, c, env)

-----------------------------------------------------------------------------
(* Synonym selection and sentence construction: build_synonym_string.      *)

RECURSIVE Flatten(_)
Flatten(seqs) == IF seqs = <<>> THEN <<>> ELSE Head(seqs) \o Flatten(Tail(seqs))

\* (mutant) every record of the entry matches, whatever its fl
Matching_AnyLabel(entry, wtype) ==
    LET entries == IF entry.kind = "list" THEN entry.items ELSE <<entry>>
    IN  SelectSeq(entries, LAMBDA e : e.kind = "dict")

\* entries = entry if isinstance(entry, list) else [entry]
\* matching = [e for e in entries if isinstance(e, dict) and e.get("fl") == wtype]
Matching(entry, wtype) ==
    LET entries == IF entry.kind = "list" THEN entry.items ELSE <<entry>>
    IN  SelectSeq(entries, LAMBDA e : e.kind = "dict" /\ e.fl = wtype)

\* meta.get("syns", []) raises when meta is not an object
SelectionRaises(matching) == \E i \in DOMAIN matching : matching[i].meta.kind # "dict"

\* the strings of the groups that are lists, in order
GroupSyns(g) ==
    IF g.kind # "list" THEN <<>>
    ELSE LET strs == SelectSeq(g.syns, LAMBDA x : x.kind = "str")
         IN  [i \in DOMAIN strs |-> strs[i].s]

RecordSyns(e) == Flatten([i \in DOMAIN e.meta.syns |-> GroupSyns(e.meta.syns[i])])

\* syn_candidates after the case-insensitive filter against the word itself
syn_candidates(matching, word) ==
    SelectSeq(Flatten([i \in DOMAIN matching |-> RecordSyns(matching[i])]),
              LAMBDA x : lower(x) # lower(word))

\* (mutant) the synonym is emitted as it is, whatever the case of the word
preserve_capitalization_Never(word, chosen) == chosen

\* if word and word[0].isupper(): chosen_word = chosen_word.capitalize()
preserve_capitalization(word, chosen) ==
    IF word # <<>> /\ IsUpper(word[1]) THEN capitalize(chosen) ELSE chosen

\* what the body of the try block at build_synonym_string did for one token: the word
\* it emits, or an exception that leaves it (raised)
Pick(word, wtype, sub, syn, out) ==
    [word |-> word, wtype |-> wtype, sub |-> sub, syn |-> syn, out |-> out, raised |-> FALSE]

\* (mutant) no try/except around the lookup and the selection: their exception leaves
\* build_synonym_string
Choices_NoExcept(word, wtype, r) ==
    LET keep     == {Pick(word, wtype, FALSE, word, word)}
        throw    == {[Pick(word, wtype, FALSE, word, word) EXCEPT !.raised = TRUE]}
        matching == Matching(r.val, wtype)
        cands    == syn_candidates(matching, word)
    IN  IF r.raised THEN throw
        ELSE IF ~Truthy(r.val) THEN keep
        ELSE IF matching = <<>> THEN keep
        ELSE IF SelectionRaises(matching) THEN throw
        ELSE IF cands = <<>> THEN keep
        ELSE { Pick(word, wtype, TRUE, cands[k], preserve_capitalization(word, cands[k])) :
                 k \in DOMAIN cands }

\* the words the selection can emit for one token, given what the lookup returned
Choices(word, wtype, r) ==
    LET keep     == {Pick(word, wtype, FALSE, word, word)}
        matching == Matching(r.val, wtype)
        cands    == syn_candidates(matching, word)
    IN  IF r.raised \/ ~Truthy(r.val) THEN keep
        ELSE IF matching = <<>> THEN keep
        ELSE IF SelectionRaises(matching) THEN keep
        ELSE IF cands = <<>> THEN keep
        ELSE { Pick(word, wtype, TRUE, cands[k], preserve_capitalization(word, cands[k])) :
                 k \in DOMAIN cands }

\* newline: strip the previous part if it ends with a space, then append "\n"
AppendNewline(parts) ==
    LET n == Len(parts)
        p == IF n > 0 /\ endswith(parts[n], <<" ">>)
             THEN [parts EXCEPT ![n] = rstrip(parts[n])]
             ELSE parts
    IN  Append(p, <<"\n">>)

\* word: a leading space unless the buffer is empty or its last part is "\n"
AppendWord(parts, chosen) ==
    IF parts # <<>> /\ parts[Len(parts)] # <<"\n">>
    THEN Append(parts, <<" ">> \o chosen)
    ELSE Append(parts, chosen)

\* re.sub(r" +\n", "\n", sentence)
RECURSIVE SpaceRunEnd(_, _)
SpaceRunEnd(s, i) == IF i < Len(s) /\ s[i + 1] = " " THEN SpaceRunEnd(s, i + 1) ELSE i

RECURSIVE strip_before_newline(_, _)
strip_before_newline(s, i) ==
    IF i > Len(s) THEN <<>>
    ELSE IF s[i] # " " THEN <<s[i]>> \o strip_before_newline(s, i + 1)
    ELSE LET j == SpaceRunEnd(s, i)
         IN  IF j < Len(s) /\ s[j + 1] = "\n"
             THEN strip_before_newline(s, j + 1)
             ELSE SubSeq(s, i, j) \o strip_before_newline(s, j + 1)

BuildResult(sentence, c, gets, picks, raised) ==
    [sentence |-> sentence, cache |-> c, gets |-> gets, picks |-> picks, raised |-> raised]

\* the loop of build_synonym_string from item i on
RECURSIVE BuildFrom(_, _, _, _, _, _, _)
BuildFrom(wt, i, parts, c, gets, picks, env) ==
    IF i > Len(wt)
    THEN {BuildResult(strip_before_newline(join(parts), 1), c, gets, picks, FALSE)}
    ELSE IF wt[i][1] = NEWLINE_MARKER
    THEN BuildFrom(wt, i + 1, AppendNewline(parts), c, gets, picks, env)
    ELSE UNION { UNION { IF pk.raised
                         THEN {BuildResult(<<>>, r.cache, gets \o r.gets, picks, TRUE)}
                         ELSE BuildFrom(wt, i + 1, AppendWord(parts, pk.out), r.cache,
                                        gets \o r.gets, Append(picks, pk), env) :
                           pk \in Choices(wt[i][1], wt[i][2], r) } :
                   r \in get_or_fetch_thesaurus(wt[i][1], c, env) }

\* (mutant) the builder reads the last part of the buffer without checking that the
\* buffer has one, which raises when there is nothing to build
build_synonym_string_NoGuard(wt, c, env) ==
    IF wt = <<>> THEN {BuildResult(<<>>, c, <<>>, <<>>, TRUE)}
    ELSE BuildFrom(wt, 1, <<>>, c, <<>>, <<>>, env)

\* processor.build_synonym_string
build_synonym_string(wt, c, env) == BuildFrom(wt, 1, <<>>, c, <<>>, <<>>, env)

-----------------------------------------------------------------------------
(* Remote POS tagging: the response to requests.post as find_type sees it. *)
(*   [kind |-> "transport"]                    requests.post raised        *)
(*   [kind |-> "http", status, body]           a response arrived          *)
(*   body : [kind |-> "unparseable"]           resp.json()/json.loads raise*)
(*          [kind |-> "scalar"]                parsed, but not iterable    *)
(*          [kind |-> "array", items]          parsed to a list            *)
(*   item : [kind |-> "pair", w, t]            a list of length >= 2       *)
(*          [kind |-> "other", s]              anything else, s = str(item)*)

NoResponse == [kind |-> "noresp"]

Transport == [kind |-> "transport"]

Http(status, body) == [kind |-> "http", status |-> status, body |-> body]

Unparseable == [kind |-> "unparseable"]

Scalar == [kind |-> "scalar"]

Array(items) == [kind |-> "array", items |-> items]

PairItem(w, t) == [kind |-> "pair", w |-> w, t |-> t]

OtherItem(s) == [kind |-> "other", s |-> s]

\* the loop over parsed at find_type: one (word, type) pair per item
TagItem(item) ==
    IF item.kind = "pair"
    THEN IF item.w = <<"\n">> \/ item.w = NEWLINE_MARKER
         THEN <<NEWLINE_MARKER, "newline">>
         ELSE <<item.w, item.t>>
    ELSE IF item.s = <<"\n">> \/ item.s = NEWLINE_MARKER
         THEN <<NEWLINE_MARKER, "newline">>
         ELSE <<item.s, _guess_type(item.s)>>

\* the remote attempt counts as failed: status >= 400, or an exception before the
\* failure counter is reset
TagFails(resp) ==
    \/ resp.kind = "transport"
    \/ resp.kind = "http" /\ resp.status >= 400
    \/ resp.kind = "http" /\ resp.body.kind # "array"

TypeResult(ws, wt, key, failures, resp, tag) ==
    [words |-> ws, words_type |-> wt, gemini_key |-> key, failures |-> failures,
     resp |-> resp, tag |-> tag]

\* (mutant) the breaker never opens: the credential is kept after the third failure
RemoteTypes_KeepsKey(ws, key, failures, resp) ==
    IF TagFails(resp)
    THEN TypeResult(ws, LocalTypes(ws), key, IF failures < 3 THEN failures + 1 ELSE 3,
                    resp, "fail")
    ELSE TypeResult(ws, [i \in DOMAIN resp.body.items |-> TagItem(resp.body.items[i])],
                    key, 0, resp, "success")

\* (mutant) a success leaves the failure counter as it was
RemoteTypes_NoReset(ws, key, failures, resp) ==
    IF TagFails(resp)
    THEN TypeResult(ws, LocalTypes(ws), IF failures + 1 >= 3 THEN None ELSE key,
                    failures + 1, resp, "fail")
    ELSE TypeResult(ws, [i \in DOMAIN resp.body.items |-> TagItem(resp.body.items[i])],
                    key, failures, resp, "success")

\* (mutant) an unparseable body is not counted as a failure
RemoteTypes_NoCount(ws, key, failures, resp) ==
    IF TagFails(resp)
    THEN TypeResult(ws, LocalTypes(ws),
                    IF failures + 1 >= 3 /\ resp.kind = "transport" THEN None ELSE key,
                    IF resp.kind = "transport" THEN failures + 1 ELSE failures,
                    resp, "fail")
    ELSE TypeResult(ws, [i \in DOMAIN resp.body.items |-> TagItem(resp.body.items[i])],
                    key, 0, resp, "success")

\* the remote path of find_type for one response
RemoteTypes(ws, key, failures, resp) ==
    IF TagFails(resp)
    THEN TypeResult(ws, LocalTypes(ws), IF failures + 1 >= 3 THEN None ELSE key,
                    failures + 1, resp, "fail")
    ELSE TypeResult(ws, [i \in DOMAIN resp.body.items |-> TagItem(resp.body.items[i])],
                    key, 0, resp, "success")

\* (mutant) no early return for a text that is empty after stripping
find_type_TokenizesBlank(text, key, failures, responses) ==
    IF Tokenize(text) = <<>>
    THEN {TypeResult(<<>>, <<>>, key, failures, NoResponse, "none")}
    ELSE IF key = None
    THEN {TypeResult(Tokenize(text), LocalTypes(Tokenize(text)), key, failures,
                     NoResponse, "local")}
    ELSE { RemoteTypes(Tokenize(text), key, failures, resp) : resp \in responses }

\* processor.find_type; responses is what the remote service may answer for these tokens
find_type(text, key, failures, responses) ==
    IF strip(text) = <<>>
    THEN {TypeResult(<<>>, <<>>, key, failures, NoResponse, "none")}
    ELSE IF Tokenize(text) = <<>>
    THEN {TypeResult(<<>>, <<>>, key, failures, NoResponse, "none")}
    ELSE IF key = None
    THEN {TypeResult(Tokenize(text), LocalTypes(Tokenize(text)), key, failures,
                     NoResponse, "local")}
    ELSE { RemoteTypes(Tokenize(text), key, failures, resp) : resp \in responses }

-----------------------------------------------------------------------------
(* The environment the model explores: what the remote services may answer *)
(* and the texts the user submits.                                         *)

DocPets ==
    ListDoc(<<Record("noun", <<Group(<< <<"p","e","t">>, <<"C","A","T">> >>)>>),
              Str(<<"c","a","t","s">>)>>)

DocBadMeta == [kind |-> "dict", fl |-> "verb", meta |-> [kind |-> "null"]]

\* documents the thesaurus service may return
RemoteDocs == {DocPets}

\* the tagger's label for a token: the heuristic's, with adjective for noun
RemoteLabel(w) == IF _guess_type(w) = "noun" THEN "adjective" ELSE _guess_type(w)

\* the token as the tagger echoes it: a newline marker comes back as "\n"
Echo(w) == IF w = NEWLINE_MARKER THEN <<"\n">> ELSE w

GoodPairs(ws) == [i \in DOMAIN ws |-> PairItem(Echo(ws[i]), RemoteLabel(ws[i]))]

\* answers of the tagging service to a request for the tokens ws
TagResponses(ws) ==
    { Transport,
      Http(500, Unparseable),
      Http(200, Unparseable),
      Http(200, Scalar),
      Http(200, Array(GoodPairs(ws))),
      Http(300, Array(GoodPairs(ws))),
      Http(200, Array(SubSeq(GoodPairs(ws), 1, Len(ws) - 1))),
      Http(200, Array([i \in DOMAIN ws |-> OtherItem(ws[i])])),
      Http(200, Array([i \in DOMAIN ws |-> PairItem(ws[i], "NN")])),
      Http(200, Array([i \in DOMAIN ws |->
                         PairItem(IF i = 1 THEN <<>> ELSE ws[i], RemoteLabel(ws[i]))])) }

-----------------------------------------------------------------------------
(* processor.process                                                       *)

Env(p, dir_ok) ==
    [link |-> p.thesaurus_link, key |-> p.thesaurus_key, dir_ok |-> dir_ok, docs |-> RemoteDocs]

TextPayload(s) == [kind |-> "text", s |-> s]

RebuildPayload == [kind |-> "rebuild"]

\* processor.data: None until the first text arrives
NoData == [kind |-> "None"]

\* the value process hands back: a str, or an exception that escaped it
Returned(s) == Str(s)

Escaped == [kind |-> "exception"]

\* the pre-fetch loop of process from item i on: failures are logged and swallowed
RECURSIVE Prefetch(_, _, _, _, _)
Prefetch(wt, i, c, gets, env) ==
    IF i > Len(wt) THEN {[cache |-> c, gets |-> gets]}
    ELSE IF wt[i][1] = NEWLINE_MARKER THEN Prefetch(wt, i + 1, c, gets, env)
    ELSE UNION { Prefetch(wt, i + 1, r.cache, gets \o r.gets, env) :
                   r \in get_or_fetch_thesaurus(wt[i][1], c, env) }

\* one way a call of process can end: the processor and the cache afterwards, the value
\* handed back, and the log of the call (before: the failure counter when it started)
Outcome(p, b, op, resp, tag, gets, before) ==
    [p     |-> [p EXCEPT !.synonym_sentence = IF b.raised THEN @ ELSE b.sentence],
     cache |-> b.cache,
     ret   |-> IF b.raised THEN Escaped ELSE Returned(b.sentence),
     log   |-> [op |-> op, resp |-> resp, tag |-> tag, gets |-> gets \o b.gets,
                picks |-> b.picks, before |-> before]]

\* (mutant) no early return: the command runs the full flow on the last built sentence
process_rebuild_Reprocess(p, c, dir_ok) ==
    UNION { { Outcome([p EXCEPT !.data = Str(p.synonym_sentence), !.words = ft.words,
                                !.words_type = ft.words_type],
                      b, "rebuild", NoResponse, "none", <<>>, p._gemini_failures) :
                b \in build_synonym_string(ft.words_type, c, Env(p, dir_ok)) } :
            ft \in find_type(p.synonym_sentence, None, p._gemini_failures, {}) }

\* the rebuild command: only build_synonym_string
process_rebuild(p, c, dir_ok) ==
    { Outcome(p, b, "rebuild", NoResponse, "none", <<>>, p._gemini_failures) :
        b \in build_synonym_string(p.words_type, c, Env(p, dir_ok)) }

\* the full flow: set data -> find types -> pre-fetch -> build
process_text(text, p, c, dir_ok) ==
    UNION { UNION { { Outcome([p EXCEPT !.data = Str(text), !.words = ft.words,
                                        !.words_type = ft.words_type,
                                        !.gemini_key = ft.gemini_key,
                                        !._gemini_failures = ft.failures],
                              b, "submit", ft.resp, ft.tag, pf.gets, p._gemini_failures) :
                        b \in build_synonym_string(ft.words_type, pf.cache, Env(p, dir_ok)) } :
                    pf \in Prefetch(ft.words_type, 1, c, <<>>, Env(p, dir_ok)) } :
            ft \in find_type(text, p.gemini_key, p._gemini_failures,
                             TagResponses(Tokenize(text))) }

process(input_data, p, c, dir_ok) ==
    IF input_data.kind = "rebuild"
    THEN process_rebuild(p, c, dir_ok)
    ELSE process_text(input_data.s, p, c, dir_ok)

-----------------------------------------------------------------------------
(* Construction: processor.__init__                                        *)

\* credentials and the link template are opaque strings
CACHE_PRESENT == "_cache_present"

\* processor.load_thesaurus_cache_key: key is the current thesaurus_key, meta_key the
\* thesaurus_key of .meta.json (None: no such file or field), c the *.json files
load_thesaurus_cache_key(key, is_dir, meta_key, c) ==
    IF key # None THEN key
    ELSE IF ~is_dir THEN None
    ELSE IF meta_key # None THEN meta_key
    ELSE IF DOMAIN c # {} THEN CACHE_PRESENT
    ELSE None

\* cfg.get("APIKeys", {}).get(name) or current
_load_config_keys(p, cfg) ==
    [p EXCEPT !.thesaurus_key  = IF cfg.thesaurus_key # None THEN cfg.thesaurus_key ELSE @,
              !.thesaurus_link = IF cfg.thesaurus_link # None THEN cfg.thesaurus_link ELSE @,
              !.gemini_key     = IF cfg.gemini_key # None THEN cfg.gemini_key ELSE @]

\* the processor after __init__
processor(cfg, is_dir, meta_key, c) ==
    _load_config_keys(
        [data |-> NoData, words |-> <<>>, words_type |-> <<>>, synonym_sentence |-> <<>>,
         thesaurus_key |-> load_thesaurus_cache_key(None, is_dir, meta_key, c),
         thesaurus_link |-> None, gemini_key |-> None, _gemini_failures |-> 0],
        cfg)

\* contents of config.json (a missing or unparseable file sets nothing)
Configs ==
    [thesaurus_key : {None, "K"}, thesaurus_link : {None, "L"}, gemini_key : {None, "G"}]

EmptyCache == [k \in {} |-> NoEntry]

\* cache directories found at start-up
InitialCaches ==
    { EmptyCache,
      <<"c","a","t">> :> DocPets,
      (<<"c","a","t">> :> Corrupt) @@ (<<"i","s">> :> DocBadMeta) }

\* the texts the user submits
TextPool ==
    << <<"C","a","t"," ","\n","i","s">>,
       <<" ","\n">>,
       <<"_","n","e","w","L","i","n","e"," ","a">>,
       <<"c","a","t">>,
       <<"i","t","'","s">>,
       <<" ","a",","," "," ","c","a","t"," ">> >>

NumTexts == 3

Texts == { TextPool[i] : i \in 1..(IF NumTexts < Len(TextPool) THEN NumTexts ELSE Len(TextPool)) }

-----------------------------------------------------------------------------
(* The GUI side of in_q: create_gui.on_generate and _send_with_retry.  An   *)
(* item of in_q is the payload together with the last_sent_text it was     *)
(* issued under (sent_for, history).                                       *)

\* the None that shuts the worker down
Sentinel == [kind |-> "sentinel"]

Item(payload, sent_for) == [payload |-> payload, sent_for |-> sent_for]

NoItem == Item([kind |-> "none"], NoData)

RETRY_LIMIT == 6

\* in_queue.put_nowait raises queue.Full
Full(q, maxsize) == maxsize > 0 /\ Len(q) >= maxsize

\* the part of the GUI state that a generate action reads and writes; sent is the
\* payload on_generate handed to _send_with_retry (history)
Gui ==
    [in_q |-> in_q, last_sent_text |-> last_sent_text, output_box |-> output_box,
     btn_enabled |-> btn_enabled, enable_timers |-> enable_timers, retries |-> retries,
     sent |-> NoItem]

Retry(item, attempt) == [item |-> item, attempt |-> attempt]

\* (mutant) after the last attempt the button is left as it is
_send_with_retry_GivesUpSilently(item, attempt, g) ==
    IF ~Full(g.in_q, in_capacity)
    THEN [g EXCEPT !.in_q = Append(@, item), !.btn_enabled = FALSE, !.enable_timers = @ + 1]
    ELSE IF attempt < RETRY_LIMIT
    THEN [g EXCEPT !.btn_enabled = FALSE, !.retries = Append(@, Retry(item, attempt + 1))]
    ELSE g

\* create_gui._send_with_retry(payload, attempt)
_send_with_retry(item, attempt, g) ==
    IF ~Full(g.in_q, in_capacity)
    THEN [g EXCEPT !.in_q = Append(@, item), !.btn_enabled = FALSE, !.enable_timers = @ + 1]
    ELSE IF attempt < RETRY_LIMIT
    THEN [g EXCEPT !.btn_enabled = FALSE, !.retries = Append(@, Retry(item, attempt + 1))]
    ELSE [g EXCEPT !.btn_enabled = TRUE]

\* (mutant) the text of the input box is compared with last_sent_text untrimmed
on_generate_ComparesRaw(text, force, g) ==
    LET normalized == strip(text)
    IN  IF normalized = <<>>
        THEN [g EXCEPT !.output_box = <<>>, !.last_sent_text = NoData]
        ELSE IF ~force /\ Str(text) = g.last_sent_text
        THEN _send_with_retry(Item(RebuildPayload, g.last_sent_text), 0,
                              [g EXCEPT !.sent = Item(RebuildPayload, g.last_sent_text)])
        ELSE _send_with_retry(Item(TextPayload(text), Str(normalized)), 0,
                              [g EXCEPT !.last_sent_text = Str(normalized),
                                        !.sent = Item(TextPayload(text), Str(normalized))])

\* create_gui.on_generate(force) with text in the input box
on_generate(text, force, g) ==
    LET normalized == strip(text)
    IN  IF normalized = <<>>
        THEN [g EXCEPT !.output_box = <<>>, !.last_sent_text = NoData]
        ELSE IF ~force /\ Str(normalized) = g.last_sent_text
        THEN _send_with_retry(Item(RebuildPayload, g.last_sent_text), 0,
                              [g EXCEPT !.sent = Item(RebuildPayload, g.last_sent_text)])
        ELSE _send_with_retry(Item(TextPayload(text), Str(normalized)), 0,
                              [g EXCEPT !.last_sent_text = Str(normalized),
                                        !.sent = Item(TextPayload(text), Str(normalized))])

\* taken: payloads (not the sentinel) the worker has removed from in_q; processed: calls
\* of processor.process it has completed; answered: the number of the request whose
\* result it put on out_q last; sentinel_taken: it has removed the sentinel
NoWorkerLog ==
    [op |-> "start", taken |-> 0, processed |-> 0, answered |-> 0,
     sentinel_taken |-> FALSE]

NoGenerateLog ==
    [op |-> "none", text |-> <<>>, prev |-> NoData, sent |-> NoItem,
     count |-> 0]

\* the queues, the worker thread and the window as main leaves them before the first
\* event: maxsize is the capacity of in_q, n the number of generate actions followed
GuiStart(maxsize, n) ==
        /\ in_q = <<>>
        /\ in_capacity = maxsize
        /\ out_q = <<>>
        /\ stop_event = FALSE
        /\ wpc = "top"
        /\ witem = NoItem
        /\ wlast = NoWorkerLog
        /\ last_sent_text = NoData
        /\ output_box = <<>>
        /\ btn_enabled = TRUE
        /\ enable_timers = 0
        /\ retries = <<>>
        /\ glast = NoGenerateLog
        /\ budget = n

-----------------------------------------------------------------------------
(* The session: one processor, its cache directory, and the two requests.  *)

Self ==
    [data |-> data, words |-> words, words_type |-> words_type,
     synonym_sentence |-> synonym_sentence, thesaurus_key |-> thesaurus_key,
     thesaurus_link |-> thesaurus_link, gemini_key |-> gemini_key,
     _gemini_failures |-> _gemini_failures]

NoLog ==
    [op |-> "init", resp |-> NoResponse, tag |-> "none", gets |-> <<>>, picks |-> <<>>,
     before |-> 0]

Install(p) ==
    /\ data = p.data
    /\ words = p.words
    /\ words_type = p.words_type
    /\ synonym_sentence = p.synonym_sentence
    /\ thesaurus_key = p.thesaurus_key
    /\ thesaurus_link = p.thesaurus_link
    /\ gemini_key = p.gemini_key
    /\ _gemini_failures = p._gemini_failures

\* a session starts from a config file, the cache directory (ok: it exists or can be
\* created), its .meta.json and its cached documents
Start(cfg, ok, meta_key, c) ==
        /\ ~ok => (c = EmptyCache /\ meta_key = None)
        /\ Install(processor(cfg, ok, meta_key, c))
        /\ cache = c
        /\ cache_dir_ok = ok
        /\ ret = Returned(<<>>)
        /\ failed_run = 0

\* configurations of the main specification: thesaurus access fully configured or
\* not at all, remote tagging configured or not
SessionConfigs == { cfg \in Configs : (cfg.thesaurus_key = None) <=> (cfg.thesaurus_link = None) }

Init ==
    /\ \E cfg \in SessionConfigs, ok \in BOOLEAN, c \in InitialCaches : Start(cfg, ok, None, c)
    /\ last = NoLog
    /\ GuiStart(0, 0)

\* the run of failed remote tagging attempts that ends with the latest attempt
Remember(n, tag) ==
    IF tag = "success" THEN 0
    ELSE IF tag = "fail" THEN (IF n < 3 THEN n + 1 ELSE 3)
    ELSE n

\* the state after a call of process that ended as o
Apply(o) ==
        /\ data' = o.p.data
        /\ words' = o.p.words
        /\ words_type' = o.p.words_type
        /\ synonym_sentence' = o.p.synonym_sentence
        /\ thesaurus_key' = o.p.thesaurus_key
        /\ thesaurus_link' = o.p.thesaurus_link
        /\ gemini_key' = o.p.gemini_key
        /\ _gemini_failures' = o.p._gemini_failures
        /\ cache' = o.cache
        /\ ret' = o.ret
        /\ last' = o.log
        /\ failed_run' = Remember(failed_run, o.log.tag)
        /\ UNCHANGED cache_dir_ok

\* process(text): the worker's call for a text payload
Submit ==
    /\ \E t \in Texts : \E o \in process(TextPayload(t), Self, cache, cache_dir_ok) : Apply(o)
    /\ UNCHANGED gvars

\* process({"_rebuild": True})
Rebuild ==
    /\ \E o \in process(RebuildPayload, Self, cache, cache_dir_ok) : Apply(o)
    /\ UNCHANGED gvars

Next == Submit \/ Rebuild

Spec == Init /\ [][Next]_vars

-----------------------------------------------------------------------------
(* Properties of the session (specification Spec).                         *)

Aligned(ws, wt) == Len(wt) = Len(ws) /\ \A i \in DOMAIN ws : wt[i][1] = ws[i]

\* C1: after every submit, on every classifier path, words_type has the length of
\* words and the word of its i-th pair is the i-th token.
C1_TypesAlignedAfterSubmit == last.op = "submit" => Aligned(words, words_type)

\* C2: a rebuild request issues no network call: no remote tagging request and no
\* remote thesaurus GET.
C2_RebuildIssuesNoNetworkCall ==
    last.op = "rebuild" => (last.resp = NoResponse /\ last.gets = <<>>)

\* C3: a rebuild request leaves words, words_type and data as they were; of the
\* session fields only synonym_sentence may change.
C3_RebuildFrame ==
    [][last'.op = "rebuild" =>
          /\ words' = words
          /\ words_type' = words_type
          /\ data' = data
          /\ thesaurus_key' = thesaurus_key
          /\ thesaurus_link' = thesaurus_link
          /\ gemini_key' = gemini_key
          /\ _gemini_failures' = _gemini_failures]_vars

\* a rebuild of a non-empty typed-token list that substituted a synonym
C3_Witness ==
    /\ last.op = "rebuild"
    /\ words_type # <<>>
    /\ \E i \in DOMAIN last.picks : last.picks[i].sub

\* C5: once three consecutive remote tagging attempts have failed, gemini_key is
\* cleared; a cleared gemini_key is never restored, and every later submit classifies
\* with the local heuristic and sends no tagging request.
C5_BreakerIsPermanent ==
    /\ [](failed_run >= 3 => gemini_key = None)
    /\ [][gemini_key = None =>
            /\ gemini_key' = None
            /\ last'.resp = NoResponse
            /\ last'.tag \in {"none", "local"}
            /\ last'.op = "submit" => words_type' = LocalTypes(words')]_vars

\* the breaker has tripped and a later submit of a non-empty text was classified locally
C5_Witness ==
    /\ failed_run = 3
    /\ gemini_key = None
    /\ last.op = "submit"
    /\ last.tag = "local"
    /\ words_type # <<>>

\* C6: a successful remote tagging response resets the failure counter to zero; the
\* counter is the length of the run of failed attempts that ends with the latest
\* attempt, gemini_key is cleared only by a failure that makes this run three long,
\* and while gemini_key is set the counter is below 3.
C6_BreakerCountsConsecutiveFailures ==
    /\ [](_gemini_failures = failed_run)
    /\ [](gemini_key # None => _gemini_failures < 3)
    /\ [][last'.tag = "success" => _gemini_failures' = 0]_vars
    /\ [][(gemini_key # None /\ gemini_key' = None) =>
             (last'.tag = "fail" /\ failed_run = 2 /\ failed_run' = 3)]_vars

\* two failures, then a success: the counter is back at zero and the key is still set
C6_Witness ==
    /\ last.tag = "success"
    /\ last.before = 2
    /\ _gemini_failures = 0
    /\ gemini_key # None

\* a response that is not an ordered array of [word, category] pairs, or that comes
\* with a transport error or a non-success status
NotPairsResponse(resp) ==
    \/ resp.kind = "transport"
    \/ resp.kind = "http" /\ (resp.status < 200 \/ resp.status >= 300)
    \/ resp.kind = "http" /\ resp.body.kind # "array"
    \/ resp.kind = "http" /\ resp.body.kind = "array"
          /\ \E i \in DOMAIN resp.body.items : resp.body.items[i].kind # "pair"

RejectedResponse(resp) ==
    \/ resp.kind = "transport"
    \/ resp.kind = "http" /\ resp.status >= 400
    \/ resp.kind = "http" /\ resp.body.kind \in {"unparseable", "scalar"}

C8_NoExceptionEscapesProcess ==
    /\ ret.kind = "str"
    /\ ret.s = synonym_sentence
    /\ \A i \in DOMAIN last.picks : ~last.picks[i].raised
    /\ last.tag = "fail" => words_type = LocalTypes(words)
    /\ \A i \in DOMAIN last.picks :
          ~last.picks[i].sub => last.picks[i].out = last.picks[i].word
    /\ ~cache_dir_ok => \A i \in DOMAIN last.picks : ~last.picks[i].sub

\* the tagging attempt failed and every cache lookup raised, and a sentence came back
C8_Witness ==
    /\ last.op = "submit"
    /\ last.tag = "fail"
    /\ ~cache_dir_ok
    /\ last.picks # <<>>
    /\ ret.kind = "str"
    /\ ret.s # <<>>

-----------------------------------------------------------------------------
(* The fetcher on its own (specification SpecCache): get_or_fetch_thesaurus *)
(* called for one word after another, for every configuration.  The log    *)
(* keeps the previous call next to the latest one.                         *)

NoResolveLog ==
    [op |-> "init", word |-> <<>>, val |-> NoEntry, raised |-> FALSE, gets |-> <<>>,
     corrupt |-> FALSE,
     prev_op |-> "init", prev_word |-> <<>>, prev_val |-> NoEntry, prev_gets |-> <<>>,
     prev_corrupt |-> FALSE]

\* the cache file of the word exists and cannot be read or parsed
UnreadableFile(w, c) == _safe_filename(w) \in DOMAIN c /\ c[_safe_filename(w)] = Corrupt

ResolveWords == { <<"c","a","t">>, <<"C","a","t">>, <<"i","s">> }

InitCache ==
    /\ \E cfg \in Configs, ok \in BOOLEAN, meta_key \in {None, "M"}, c \in InitialCaches :
          Start(cfg, ok, meta_key, c)
    /\ last = NoResolveLog
    /\ GuiStart(0, 0)

Resolve ==
    \E w \in ResolveWords :
        \E r \in get_or_fetch_thesaurus(w, cache, Env(Self, cache_dir_ok)) :
            /\ cache' = r.cache
            /\ last' = [op |-> "resolve", word |-> w, val |-> r.val, raised |-> r.raised,
                        gets |-> r.gets, corrupt |-> UnreadableFile(w, cache),
                        prev_op |-> last.op, prev_word |-> last.word,
                        prev_val |-> last.val, prev_gets |-> last.gets,
                        prev_corrupt |-> last.corrupt]
            /\ UNCHANGED <<data, words, words_type, synonym_sentence, thesaurus_key,
                           thesaurus_link, gemini_key, _gemini_failures, cache_dir_ok,
                           ret, failed_run>>
            /\ UNCHANGED gvars

NextCache == Resolve

SpecCache == InitCache /\ [][NextCache]_vars

\* the latest two calls were for the same word
TwiceSameWord == last.op = "resolve" /\ last.prev_op = "resolve" /\ last.word = last.prev_word

\* C4 (as claimed): two calls of get_or_fetch_thesaurus on the same word, with no cache
\* cleared between them, perform at most one remote thesaurus call in total, whatever
\* the outcome of the first call.
C4_TwoCallsOneRemoteCall ==
    TwiceSameWord => Len(last.prev_gets) + Len(last.gets) <= 1

\* C4 (amended): the two calls perform at most one remote call in total when the first
\* call returned an entry (a cache hit, or a fetch that succeeded and was written to
\* the cache); when the fetch of the first call failed nothing is cached and the
\* second call fetches again, which makes two remote calls.
C4_TwoCallsOneRemoteCallAfterSuccess ==
    TwiceSameWord =>
        /\ last.prev_val # NoEntry => Len(last.prev_gets) + Len(last.gets) <= 1
        /\ last.prev_val # NoEntry => last.gets = <<>>
        /\ (last.prev_val = NoEntry /\ last.prev_gets # <<>>) => Len(last.gets) = 1

\* a first call that fetched and cached the entry, then a second call served by the cache
C4_Witness ==
    /\ TwiceSameWord
    /\ Len(last.prev_gets) = 1
    /\ last.prev_val # NoEntry
    /\ last.gets = <<>>
    /\ last.val = last.prev_val

-----------------------------------------------------------------------------
(* The builder over rich thesaurus entries (specification SpecBuild): the  *)
(* session starts with cached documents of every shape the builder         *)
(* distinguishes and no thesaurus link, so every entry comes from disk.    *)

DocCat ==
    ListDoc(<<Record("noun", <<Group(<< <<"p","e","t">>, <<"c","A","t">>,
                                        <<"t","o","m","C","a","t">>, <<"9","x">>,
                                        <<" ","p"," ">> >>),
                               Str(<<"z","z">>),
                               [kind |-> "list", syns |-> <<[kind |-> "num"]>>]>>),
              Record("adjective", <<Group(<< <<"f","a","t">> >>)>>),
              Record("Noun", <<Group(<< <<"b","a","d">> >>)>>),
              Str(<<"c","a","t","s">>)>>)

DocIs == Record("verb", <<Group(<< <<"a","R","e">> >>)>>)

BuildCaches ==
    { (<<"c","a","t">> :> DocCat) @@ (<<"i","s">> :> DocIs),
      (<<"c","a","t">> :> DocCat) @@ (<<"i","s">> :> DocBadMeta),
      (<<"c","a","t">> :> ListDoc(<<>>)) @@ (<<"a">> :> DocIs) }

BuildConfigs == { cfg \in Configs : cfg.thesaurus_key = None /\ cfg.thesaurus_link = None }

InitBuild ==
    /\ \E cfg \in BuildConfigs, c \in BuildCaches : Start(cfg, TRUE, None, c)
    /\ last = NoLog
    /\ GuiStart(0, 0)

SpecBuild == InitBuild /\ [][Next]_vars

Built == last.op \in {"submit", "rebuild"}

SpaceBeforeNewline(s) == \E i \in 1..(Len(s) - 1) : s[i] = " " /\ s[i + 1] = "\n"

\* C9: after any build, synonym_sentence contains no space immediately before a
\* newline character and does not begin with a space.
C9_WhitespaceLaw ==
    Built =>
        /\ ~SpaceBeforeNewline(synonym_sentence)
        /\ ~(synonym_sentence # <<>> /\ synonym_sentence[1] = " ")

StartsUpper(w) == w # <<>> /\ IsUpper(w[1])

AllLower(w) == w # <<>> /\ \A i \in DOMAIN w : ~IsUpper(w[i])

StartsWithLetter(w) == w # <<>> /\ w[1] \in Lower \cup Upper

\* C10 (as claimed): when a synonym is substituted, the emitted word starts with an
\* uppercase character if the original word does, and is the chosen synonym with its
\* casing unchanged if the original word is all-lowercase.
C10_CapitalizationLaw ==
    Built =>
        \A i \in DOMAIN last.picks :
            last.picks[i].sub =>
                /\ StartsUpper(last.picks[i].word) => StartsUpper(last.picks[i].out)
                /\ AllLower(last.picks[i].word) => last.picks[i].out = last.picks[i].syn

\* C10 (amended): when a synonym is substituted for a word that starts with an
\* uppercase character, the emitted word starts with an uppercase character provided
\* the synonym starts with a letter; a synonym that starts with another character (a
\* digit, a space) keeps that first character.  For an all-lowercase word the emitted
\* word is the chosen synonym with its casing unchanged.
C10_CapitalizationLawForLetters ==
    Built =>
        \A i \in DOMAIN last.picks :
            last.picks[i].sub =>
                /\ (StartsUpper(last.picks[i].word) /\ StartsWithLetter(last.picks[i].syn))
                      => StartsUpper(last.picks[i].out)
                /\ (StartsUpper(last.picks[i].word) /\ ~StartsWithLetter(last.picks[i].syn)
                       /\ last.picks[i].syn # <<>>)
                      => (last.picks[i].out # <<>> /\ last.picks[i].out[1] = last.picks[i].syn[1])
                /\ AllLower(last.picks[i].word) => last.picks[i].out = last.picks[i].syn

\* a capitalized word replaced by a synonym that starts lowercase, and an all-lowercase
\* word replaced by a synonym of mixed case, in one sentence
C10_Witness ==
    /\ Built
    /\ \E i \in DOMAIN last.picks :
          /\ last.picks[i].sub
          /\ StartsUpper(last.picks[i].word)
          /\ last.picks[i].syn[1] \in Lower
          /\ StartsUpper(last.picks[i].out)
    /\ \E i \in DOMAIN last.picks :
          /\ last.picks[i].sub
          /\ AllLower(last.picks[i].word)
          /\ \E k \in DOMAIN last.picks[i].syn : IsUpper(last.picks[i].syn[k])
          /\ last.picks[i].out = last.picks[i].syn

\* C11 (as claimed): when a synonym replaces a word whose first character is
\* uppercase, only the first character of the synonym is changed: every other
\* character of the emitted word is the synonym's character, casing included.
C11_OnlyFirstCharacterChanges ==
    Built =>
        \A i \in DOMAIN last.picks :
            (last.picks[i].sub /\ StartsUpper(last.picks[i].word)) =>
                /\ Len(last.picks[i].out) = Len(last.picks[i].syn)
                /\ \A k \in 2..Len(last.picks[i].syn) :
                      last.picks[i].out[k] = last.picks[i].syn[k]

\* the entry the builder resolves for a word when every entry comes from disk
EntryOf(word) ==
    IF ~Blank(word) /\ _safe_filename(word) \in DOMAIN cache
    THEN cache[_safe_filename(word)]
    ELSE NoEntry

\* the records of an entry (a single record counts as a list of one)
RecordsOf(entry) ==
    IF entry.kind = "list" THEN Range(entry.items)
    ELSE IF entry.kind = "dict" THEN {entry}
    ELSE {}

\* e is a record labelled fl whose syns groups hold the string syn
OffersSynonym(e, fl, syn) ==
    /\ e.kind = "dict"
    /\ e.fl = fl
    /\ e.meta.kind = "dict"
    /\ \E g \in Range(e.meta.syns) :
          /\ g.kind = "list"
          /\ \E x \in Range(g.syns) : x.kind = "str" /\ x.s = syn

-----------------------------------------------------------------------------
(* Further properties of the fetcher (specification SpecCache).            *)

\* C13: when thesaurus_key is only the sentinel set because cached entries exist (no
\* credential from config.json or .meta.json), no remote thesaurus GET is ever issued
\* under that sentinel, for any contents of config.json.
C13_NoFetchUnderSentinel ==
    \A i \in DOMAIN last.gets : last.gets[i].key # CACHE_PRESENT

\* C14: a remote thesaurus fetch that fails (transport error, non-success status,
\* unparseable body) returns absent without raising and leaves the cache as it was:
\* no cache entry is created or modified.
C14_FailedFetchLeavesCache ==
    [][(last'.op = "resolve" /\ last'.gets # <<>> /\ last'.val = NoEntry) =>
          /\ cache' = cache
          /\ ~last'.raised]_vars

\* a fetch for a word without a cache file failed, and there is still no file for it
C14_Witness ==
    /\ last.op = "resolve"
    /\ Len(last.gets) = 1
    /\ last.val = NoEntry
    /\ ~last.corrupt
    /\ _safe_filename(last.word) \notin DOMAIN cache

\* C15 (as claimed): an unreadable cache file is a cache miss that triggers a remote
\* fetch, is never deleted, and the re-fetch is one-time: resolve calls for that key
\* make at most one remote fetch because of the corruption.
C15_CorruptionFetchesOnce ==
    /\ (last.op = "resolve" /\ last.corrupt) => _safe_filename(last.word) \in DOMAIN cache
    /\ (TwiceSameWord /\ last.prev_corrupt) => Len(last.prev_gets) + Len(last.gets) <= 1

\* C15 (amended): an unreadable cache file is never deleted and is treated as a cache
\* miss: with a link and a credential configured every resolve call for that key
\* issues one remote fetch for as long as the file is unreadable, that is until a
\* fetch succeeds and overwrites the file with the fetched document, after which the
\* calls are cache hits; without a link or a credential no fetch is issued and the
\* call returns absent.
C15_CorruptionFetchesUntilSuccess ==
    /\ [][\A k \in DOMAIN cache : k \in DOMAIN cache']_vars
    /\ []((last.op = "resolve" /\ last.corrupt) =>
            /\ ~last.raised
            /\ Len(last.gets) = (IF thesaurus_link # None /\ thesaurus_key # None THEN 1 ELSE 0)
            /\ _safe_filename(last.word) \in DOMAIN cache
            /\ cache[_safe_filename(last.word)] = (IF last.val = NoEntry THEN Corrupt ELSE last.val))
    /\ []((TwiceSameWord /\ last.prev_corrupt) =>
            /\ last.prev_val # NoEntry => (~last.corrupt /\ last.gets = <<>> /\ last.val = last.prev_val)
            /\ last.prev_val = NoEntry => (last.corrupt /\ Len(last.gets) = Len(last.prev_gets)))

\* two calls for a key whose file is unreadable: the first fetch failed and the file
\* stayed, the second fetched again, succeeded and replaced the file
C15_Witness ==
    /\ TwiceSameWord
    /\ last.prev_corrupt
    /\ Len(last.prev_gets) = 1
    /\ last.prev_val = NoEntry
    /\ last.corrupt
    /\ Len(last.gets) = 1
    /\ last.val # NoEntry
    /\ cache[_safe_filename(last.word)] = last.val

-----------------------------------------------------------------------------
(* Further properties of the session (specification Spec).                 *)

Categories ==
    {"noun", "verb", "adjective", "adverb", "pronoun", "determiner", "preposition",
     "conjunction", "numeral", "punctuation", "newline", "other"}

\* C16: in every reachable session state the category of every pair of words_type is
\* one of noun, verb, adjective, adverb, pronoun, determiner, preposition,
\* conjunction, numeral, punctuation, newline, other: on the heuristic path and on the
\* remote path.
C16_CategoriesAreEnumerated ==
    \A i \in DOMAIN words_type : words_type[i][2] \in Categories

NewlineCount(s) == Cardinality({ i \in DOMAIN s : s[i] = "\n" })

\* C17: for every text that is not whitespace-only, a token is a newline marker
\* (classified newline, emitted as a line break) if and only if it was produced from a
\* newline character of the input: there are as many newline markers in words, as
\* many pairs classified newline and as many line breaks in the built sentence as the
\* input has newline characters.
C17_NewlineMarkersComeFromNewlines ==
    (last.op = "submit" /\ ~Blank(data.s)) =>
        /\ Cardinality({ i \in DOMAIN words : words[i] = NEWLINE_MARKER }) = NewlineCount(data.s)
        /\ Cardinality({ i \in DOMAIN words_type : words_type[i][2] = "newline" })
              = NewlineCount(data.s)
        /\ NewlineCount(synonym_sentence) = NewlineCount(data.s)

\* the words and newlines of a token sequence written out in order: the words of a
\* line separated by exactly one space, no space next to a newline
RECURSIVE Render(_, _)
Render(tokens, i) ==
    IF i > Len(tokens) THEN <<>>
    ELSE IF tokens[i] = <<"\n">> THEN <<"\n">> \o Render(tokens, i + 1)
    ELSE (IF i > 1 /\ tokens[i - 1] # <<"\n">> THEN <<" ">> ELSE <<>>)
         \o tokens[i] \o Render(tokens, i + 1)

\* no remote credential was configured and the cache directory holds no entry
NoRemoteNoEntries ==
    /\ gemini_key = None
    /\ failed_run = 0
    /\ thesaurus_key = None
    /\ thesaurus_link = None
    /\ cache = EmptyCache

\* C18: with no remote credentials and no thesaurus entry for any token, the submit of
\* a text (here: one that is not whitespace-only) returns the words and newlines of
\* the input in their original order, the words of a line separated by exactly one
\* space and no space next to a newline, and tokenizing the returned sentence yields
\* the token sequence of the input.
C18_PlainSubmitKeepsStructure ==
    (last.op = "submit" /\ NoRemoteNoEntries /\ ~Blank(data.s)) =>
        /\ ret = Returned(Render(findall(data.s, 1), 1))
        /\ findall(ret.s, 1) = findall(data.s, 1)

\* C19 (as claimed): submitting an empty or whitespace-only text, from any prior
\* session state, returns the empty string, leaves words and words_type empty and
\* resets the session to having no last-submitted text.
C19_BlankSubmitResetsSession ==
    (last.op = "submit" /\ Blank(data.s)) =>
        /\ ret = Returned(<<>>)
        /\ words = <<>>
        /\ words_type = <<>>
        /\ data = NoData

\* C19 (amended): submitting an empty or whitespace-only text, from any prior session
\* state, returns the empty string and leaves words and words_type empty, without any
\* remote request; the last-submitted text of the processor, data, is then that
\* submitted text (empty once stripped) and not None.
C19_BlankSubmitEmptiesTokens ==
    /\ []((last.op = "submit" /\ Blank(data.s)) =>
            /\ ret = Returned(<<>>)
            /\ synonym_sentence = <<>>
            /\ words = <<>>
            /\ words_type = <<>>
            /\ data # NoData
            /\ last.resp = NoResponse
            /\ last.gets = <<>>
            /\ last.picks = <<>>)
    /\ [][(last'.op = "submit" /\ Blank(data'.s)) =>
            /\ gemini_key' = gemini_key
            /\ _gemini_failures' = _gemini_failures
            /\ cache' = cache]_vars

\* a whitespace-only text submitted after an earlier submit whose remote tagging
\* attempt had failed: the tokens of the earlier text are gone
C19_Witness ==
    /\ last.op = "submit"
    /\ Blank(data.s)
    /\ data.s # <<>>
    /\ _gemini_failures > 0
    /\ words = <<>>
    /\ ret = Returned(<<>>)

\* C20: a rebuild request handled before any submit has occurred returns the empty
\* string, raises no error and leaves the session with empty words and words_type.
C20_RebuildBeforeSubmit ==
    (last.op = "rebuild" /\ data = NoData) =>
        /\ ret = Returned(<<>>)
        /\ synonym_sentence = <<>>
        /\ words = <<>>
        /\ words_type = <<>>
        /\ last.picks = <<>>
        /\ last.gets = <<>>

\* a rebuild was handled in a session that has seen no submit
C20_Witness ==
    /\ last.op = "rebuild"
    /\ data = NoData
    /\ ret.kind = "str"
    /\ cache # EmptyCache

\* C21: after any sequence of submits and rebuilds, words is exactly the tokenization
\* of the most recently submitted text (no token for a text that is empty once
\* stripped) and words_type is its classification, one pair per token in order:
\* nothing of an earlier submit remains.
C21_SubmitReplacesTokenState ==
    data.kind = "str" =>
        /\ words = (IF Blank(data.s) THEN <<>> ELSE Tokenize(data.s))
        /\ Aligned(words, words_type)

-----------------------------------------------------------------------------
(* The application (specification SpecGui): the window of gui.py, the      *)
(* worker thread of run.py with its processor, and the two queues between  *)
(* them.  The processor has no credential and an empty cache directory.    *)

\* texts the user has in the input box when a generate action runs
GuiTexts == { <<"a", " ">>, <<" ">>, <<"i","s">> }

\* capacities of in_q: unbounded as in main, and a queue of one item
QueueSizes == {0, 1}

MaxGenerates == 2

NoCredentials == [thesaurus_key |-> None, thesaurus_link |-> None, gemini_key |-> None]

InitGui ==
    /\ Start(NoCredentials, TRUE, None, EmptyCache)
    /\ last = NoLog
    /\ \E maxsize \in QueueSizes : GuiStart(maxsize, MaxGenerates)

\* the window after a handler that left the GUI state g; via: how generate was triggered
Generated(g, via, text) ==
        /\ in_q' = g.in_q
        /\ last_sent_text' = g.last_sent_text
        /\ output_box' = g.output_box
        /\ btn_enabled' = g.btn_enabled
        /\ enable_timers' = g.enable_timers
        /\ retries' = g.retries
        /\ glast' = [op |-> via, text |-> text, prev |-> last_sent_text, sent |-> g.sent, count |-> glast.count + 1]
        /\ budget' = budget - 1
        /\ UNCHANGED <<pvars, in_capacity, out_q, stop_event, wpc, witem, wlast>>

\* the generate button is released or activated from the keyboard:
\* ColoredButton._activate runs the command unless the button is disabled
Click ==
    /\ budget > 0
    /\ btn_enabled
    /\ \E t \in GuiTexts : Generated(on_generate(t, FALSE, Gui), "click", t)

\* Control-Return or Command-Return anywhere in the window: _bind_generate
KeyGenerate ==
    /\ budget > 0
    /\ \E t \in GuiTexts : Generated(on_generate(t, FALSE, Gui), "key", t)

\* retries without its i-th element
Without(seq, i) == SubSeq(seq, 1, i - 1) \o SubSeq(seq, i + 1, Len(seq))

\* a scheduled root.after(delay_ms, lambda: _send_with_retry(payload, attempt + 1)) fires
RetryFire ==
    \E i \in DOMAIN retries :
        LET g == _send_with_retry(retries[i].item, retries[i].attempt,
                                  [Gui EXCEPT !.retries = Without(retries, i)])
        IN  /\ in_q' = g.in_q
            /\ btn_enabled' = g.btn_enabled
            /\ enable_timers' = g.enable_timers
            /\ retries' = g.retries
            /\ UNCHANGED <<pvars, in_capacity, out_q, stop_event, wpc, witem, wlast,
                           last_sent_text, output_box, glast, budget>>

\* a scheduled root.after(150, generate_btn.enable) fires
EnableFire ==
    /\ enable_timers > 0
    /\ enable_timers' = enable_timers - 1
    /\ btn_enabled' = TRUE
    /\ UNCHANGED <<pvars, in_q, in_capacity, out_q, stop_event, wpc, witem, wlast,
                   last_sent_text, output_box, retries, glast, budget>>

\* create_gui._poll_output with results waiting: each replaces the output box
PollOutput ==
    /\ out_q # <<>>
    /\ output_box' = out_q[Len(out_q)].text
    /\ out_q' = <<>>
    /\ UNCHANGED <<pvars, in_q, in_capacity, stop_event, wpc, witem, wlast, last_sent_text,
                   btn_enabled, enable_timers, retries, glast, budget>>

\* shutdown is requested (_handle, or main after the window closed): stop_event.set()
\* and in_q.put_nowait(None), whose queue.Full is ignored
Signal ==
    /\ ~stop_event
    /\ stop_event' = TRUE
    /\ in_q' = IF Full(in_q, in_capacity) THEN in_q ELSE Append(in_q, Item(Sentinel, NoData))
    /\ UNCHANGED <<pvars, in_capacity, out_q, wpc, witem, wlast, last_sent_text, output_box,
                   btn_enabled, enable_timers, retries, glast, budget>>

\* (mutant) queue.Empty at the top of the loop does not end the loop
WorkerCheckStop_NoBreak ==
    /\ wpc = "top"
    /\ IF ~stop_event \/ in_q = <<>>
       THEN /\ wpc' = "get"
            /\ UNCHANGED <<in_q, witem, wlast>>
       ELSE /\ wpc' = "get"
            /\ witem' = Head(in_q)
            /\ in_q' = Tail(in_q)
            /\ wlast' = [wlast EXCEPT
                           !.op = "get_nowait",
                           !.taken = IF Head(in_q).payload = Sentinel THEN @ ELSE @ + 1,
                           !.sentinel_taken = @ \/ Head(in_q).payload = Sentinel]
    /\ UNCHANGED <<pvars, in_capacity, out_q, stop_event, last_sent_text, output_box,
                   btn_enabled, enable_timers, retries, glast, budget>>

\* worker, top of the loop: if stop_event.is_set(), item = in_q.get_nowait(), and
\* break on queue.Empty
WorkerCheckStop ==
    /\ wpc = "top"
    /\ IF ~stop_event
       THEN /\ wpc' = "get"
            /\ UNCHANGED <<in_q, witem, wlast>>
       ELSE IF in_q = <<>>
       THEN /\ wpc' = "done"
            /\ wlast' = [wlast EXCEPT !.op = "exit"]
            /\ UNCHANGED <<in_q, witem>>
       ELSE /\ wpc' = "get"
            /\ witem' = Head(in_q)
            /\ in_q' = Tail(in_q)
            /\ wlast' = [wlast EXCEPT
                           !.op = "get_nowait",
                           !.taken = IF Head(in_q).payload = Sentinel THEN @ ELSE @ + 1,
                           !.sentinel_taken = @ \/ Head(in_q).payload = Sentinel]
    /\ UNCHANGED <<pvars, in_capacity, out_q, stop_event, last_sent_text, output_box,
                   btn_enabled, enable_timers, retries, glast, budget>>

\* worker: item = in_q.get(timeout=0.5); continue on queue.Empty; break on None
WorkerGet ==
    /\ wpc = "get"
    /\ IF in_q = <<>>
       THEN /\ wpc' = "top"
            /\ UNCHANGED <<in_q, witem, wlast>>
       ELSE /\ witem' = Head(in_q)
            /\ in_q' = Tail(in_q)
            /\ wpc' = IF Head(in_q).payload = Sentinel THEN "done" ELSE "process"
            /\ wlast' = [wlast EXCEPT
                           !.op = IF Head(in_q).payload = Sentinel THEN "exit" ELSE "get",
                           !.taken = IF Head(in_q).payload = Sentinel THEN @ ELSE @ + 1,
                           !.sentinel_taken = @ \/ Head(in_q).payload = Sentinel]
    /\ UNCHANGED <<pvars, in_capacity, out_q, stop_event, last_sent_text, output_box,
                   btn_enabled, enable_timers, retries, glast, budget>>

\* a result on out_q: the sentence and the number of the request it answers (history)
Result(text, n) == [text |-> text, n |-> n]

\* (mutant) the result is put in front of the results that wait
put_result_First(q, r, n) == IF r.kind = "str" THEN <<Result(r.s, n)>> \o q ELSE q

\* out_q.put(processed), skipped when process raised
put_result(q, r, n) == IF r.kind = "str" THEN Append(q, Result(r.s, n)) ELSE q

\* worker: processed = poem_processor.process(item); out_q.put(processed)
WorkerProcess ==
    /\ wpc = "process"
    /\ \E o \in process(witem.payload, Self, cache, cache_dir_ok) :
          /\ Apply(o)
          /\ out_q' = put_result(out_q, o.ret, wlast.taken)
    /\ wpc' = "top"
    /\ wlast' = [wlast EXCEPT !.op = "process", !.processed = @ + 1,
                               !.answered = IF Len(out_q') > Len(out_q) THEN wlast.taken ELSE @]
    /\ UNCHANGED <<in_q, in_capacity, stop_event, witem, last_sent_text, output_box,
                   btn_enabled, enable_timers, retries, glast, budget>>

NextGui ==
    \/ Click
    \/ KeyGenerate
    \/ RetryFire
    \/ EnableFire
    \/ PollOutput
    \/ Signal
    \/ WorkerCheckStop
    \/ WorkerGet
    \/ WorkerProcess

SpecGui == InitGui /\ [][NextGui]_vars

\* C22: the processor is used only by the worker, which processes at most one
\* payload at a time: it removes nothing from in_q while a process call is in
\* flight, the call's result is put on out_q before the next request is taken, and
\* the results are on out_q in the order in which their requests were dequeued.
C22_OneRequestAtATime ==
    /\ [][pvars' # pvars => (wpc = "process" /\ wpc' = "top")]_vars
    /\ [][Len(in_q') < Len(in_q) => (wpc \in {"top", "get"} /\ wlast'.taken >= wlast.taken)]_vars
    /\ [][wlast'.processed # wlast.processed =>
            /\ wpc = "process"
            /\ wlast'.processed = wlast.processed + 1
            /\ out_q' = Append(out_q, Result(ret'.s, wlast.taken))
            /\ wlast.taken > wlast.answered]_vars
    /\ [](\A i, j \in DOMAIN out_q : i < j => out_q[i].n < out_q[j].n)
    /\ [](\A i \in DOMAIN out_q : out_q[i].n <= wlast.answered)

\* the results of two requests wait on out_q in the order of their requests
C22_Witness ==
    /\ Len(out_q) = 2
    /\ out_q[1].n = 1
    /\ out_q[2].n = 2
    /\ wlast.processed = 2

\* C23: once the worker has removed the None sentinel from in_q it processes no payload
\* and puts nothing on out_q, even if payloads are queued behind the sentinel.
C23_SentinelStopsWorker ==
    [][wlast.sentinel_taken =>
          /\ wlast'.processed = wlast.processed
          /\ Len(out_q') <= Len(out_q)]_vars

\* C24: a generate action with a non-empty trimmed input sends the rebuild command
\* exactly when the trimmed input equals last_sent_text and force is false, and
\* otherwise sends the full text and sets last_sent_text to the trimmed input; with an
\* empty trimmed input it sends nothing, clears the output and sets last_sent_text to
\* None.  (Every caller passes force = False; the forced case is read off on_generate.)
C24_GenerateDecision ==
    /\ [][glast'.count # glast.count =>
            LET normalized == strip(glast'.text)
            IN  IF normalized = <<>>
                THEN /\ glast'.sent = NoItem
                     /\ in_q' = in_q
                     /\ retries' = retries
                     /\ output_box' = <<>>
                     /\ last_sent_text' = NoData
                ELSE IF last_sent_text = Str(normalized)
                THEN /\ glast'.sent.payload = RebuildPayload
                     /\ last_sent_text' = last_sent_text
                ELSE /\ glast'.sent.payload = TextPayload(glast'.text)
                     /\ last_sent_text' = Str(normalized)]_vars
    /\ [](\A t \in GuiTexts :
            strip(t) # <<>> =>
                /\ on_generate(t, TRUE, Gui).sent.payload = TextPayload(t)
                /\ on_generate(t, TRUE, Gui).last_sent_text = Str(strip(t)))

\* the input box holds the last sent text followed by a space: a rebuild command was sent
C24_Witness ==
    /\ glast.op \in {"click", "key"}
    /\ glast.sent.payload = RebuildPayload
    /\ glast.prev # Str(glast.text)
    /\ last_sent_text = Str(strip(glast.text))

\* C26: while the generate button is disabled no generate action runs, whichever way
\* generate is triggered.
C26_NoGenerateWhileDisabled ==
    [][~btn_enabled => glast'.count = glast.count]_vars

\* C27: every payload other than the sentinel that the worker removes from in_q is
\* passed to processor.process, also after stop_event has been set: the payloads
\* removed are those processed and, if any, the one whose process call is in flight.
C27_NoPayloadDiscarded ==
    wlast.taken = wlast.processed + (IF wpc = "process" THEN 1 ELSE 0)

\* C28: whenever the worker handles a rebuild request, words_type was derived from the
\* text whose trimmed form is the last_sent_text under which the request was issued.
C28_RebuildSeesItsText ==
    (wlast.op = "process" /\ witem.payload = RebuildPayload) =>
        /\ data.kind = "str"
        /\ Str(strip(data.s)) = witem.sent_for

\* C30: after a generate action with an empty trimmed input has cleared the output
\* box, the box stays empty until a later generate action sends a new payload.
C30_ClearedOutputStaysEmpty ==
    (glast.op \in {"click", "key"} /\ strip(glast.text) = <<>>) => output_box = <<>>

-----------------------------------------------------------------------------
(* Progress (specification SpecLive): the application with the worker      *)
(* thread scheduled fairly and the Tk event loop running its timers, for   *)
(* sessions of MaxLiveGenerates generate actions.                          *)

MaxLiveGenerates == 1

InitLive ==
    /\ Start(NoCredentials, TRUE, None, EmptyCache)
    /\ last = NoLog
    /\ \E maxsize \in QueueSizes : GuiStart(maxsize, MaxLiveGenerates)

\* the worker thread takes its next step
Worker == WorkerCheckStop \/ WorkerGet \/ WorkerProcess

\* the Tk event loop runs a callback scheduled with root.after
Timer == EnableFire \/ RetryFire

SpecLive ==
    /\ InitLive
    /\ [][NextGui]_vars
    /\ WF_vars(Worker)
    /\ WF_vars(Timer)

\* C25: once stop_event is set the worker eventually leaves its loop, whether or not
\* the sentinel could be enqueued and whatever is in in_q.
C25_WorkerExitsAfterStop == stop_event ~> (wpc = "done")

\* the sentinel could not be enqueued; the worker took the payload that filled in_q and
\* left the loop on queue.Empty
C25_Witness ==
    /\ stop_event
    /\ wpc = "done"
    /\ ~wlast.sentinel_taken
    /\ wlast.taken >= 1

\* C29: _send_with_retry attempts to enqueue a payload at most 7 times (attempts 0 to
\* 6), a further attempt is scheduled only on queue.Full, and in every outcome the
\* generate button is eventually enabled again.
C29_RetryIsBoundedAndButtonReturns ==
    /\ [](\A i \in DOMAIN retries : retries[i].attempt \in 1..RETRY_LIMIT)
    /\ [][(retries' # retries /\ Len(retries') >= Len(retries)) =>
             Full(in_q, in_capacity)]_vars
    /\ (~btn_enabled) ~> btn_enabled

\* the payload was given up after the last attempt and the button is enabled again
C29_Witness ==
    /\ glast.count = 1
    /\ glast.sent.payload.kind = "text"
    /\ retries = <<>>
    /\ enable_timers = 0
    /\ btn_enabled
    /\ wlast.taken = 0
    /\ \A i \in DOMAIN in_q : in_q[i].payload.kind # "text"

====
